---- MODULE Spec2Model ----
(***************************************************************************)
(* Model of src/Final_Prototype.py: the 50HZ dashboard script.  One run of *)
(* the script loads the generation workbook, filters it for the historical *)
(* tab, reads the scenario controls, calls                                 *)
(* generate_future_scenarios_enhanced and draws the four scenario tabs,    *)
(* two of which call the function again for every method and scenario,     *)
(* and offers the projection as a CSV download.                            *)
(*                                                                         *)
(* Numbers.  The script computes in IEEE doubles.  Here a number is an     *)
(* exact rational or NaN: [nan, num, den], den > 0, num/den in lowest      *)
(* terms.  Sums, means and the regression are exact.  The compounding      *)
(* power (1 + rate) ** t is kept in fixed point with Scale steps per unit, *)
(* (1 + rate) ** 0 being exactly 1; its product with the base value is     *)
(* exact.                                                                  *)
(* Energy is counted in TWh (10^6 MWh), which every formula of the script  *)
(* scales with, so the fallback 15000000 MWh is 15 here.                   *)
(***************************************************************************)
EXTENDS Integers, Sequences, FiniteSets, TLC

VARIABLES
    pc,                 \* position of the run in the script
    error,              \* the exception that ended the run, "none" if none
    workbook,           \* the Excel file: readable or not, and the rows of its digit-named sheets
    generation_df,      \* line 198
    year_range,         \* (start_year, end_year), line 222
    show_technology,    \* show_solar, show_wind_onshore, show_wind_offshore, lines 232-234
    generation_df_filtered, \* line 245
    projection_method,  \* widget, line 679
    scenario_type,      \* widget, line 692
    sliders,            \* solar_growth .. efficiency_improvement, lines 713-742
    custom_params,      \* line 879
    call,               \* arguments of the last call of the projection function
    params,             \* the local params of the last call that returned, line 816
    scenario_data,      \* line 890
    base_year,          \* line 890
    base_values,        \* line 890
    method_comparison,  \* line 1143
    all_scenarios,      \* line 1174
    previous,           \* what the call before the last one returned
    csv                 \* line 1268

vars == <<pc, error, workbook, generation_df, year_range, show_technology,
          generation_df_filtered,
          projection_method, scenario_type, sliders, custom_params, call, params,
          scenario_data, base_year, base_values, method_comparison, all_scenarios,
          previous, csv>>

-----------------------------------------------------------------------------
(* Bounds of the model *)

MaxRows == 2

YearsIn == {2020, 2023, 2024, 2025, 2051}

EnergyIn == {<<10, 30, 0>>, <<14, 20, 30>>}

-----------------------------------------------------------------------------
(* Python values *)

None == [none |-> TRUE]

YEAR == "Year"
PV == "Photovoltaics [MWh]"
WIND_ON == "Wind Onshore [MWh]"
WIND_OFF == "Wind Offshore [MWh]"
TOTAL_GEN == "Total Generation [MWh]"

Techs == <<PV, WIND_ON, WIND_OFF>>

GenColumns == {YEAR, PV, WIND_ON, WIND_OFF, TOTAL_GEN}

EmptyDataFrame == [columns |-> {}, rows |-> <<>>]

IsEmpty(df) == df.columns = {} \/ df.rows = <<>>

-----------------------------------------------------------------------------
(* Numbers *)

Abs(i) == IF i < 0 THEN -i ELSE i

RECURSIVE GCD(_, _)
GCD(a, b) == IF b = 0 THEN Abs(a) ELSE GCD(b, a % Abs(b))

NaN == [nan |-> TRUE, num |-> 0, den |-> 1]

\* n/d in lowest terms; 0/0 is NaN as in numpy
Rat(n, d) ==
    IF d = 0 THEN NaN
    ELSE LET g == GCD(n, d)
             s == IF d < 0 THEN -1 ELSE 1
         IN  [nan |-> FALSE, num |-> s * (n \div g), den |-> s * (d \div g)]

Num(i) == Rat(i, 1)

Add(a, b) ==
    IF a.nan \/ b.nan THEN NaN
    ELSE IF a.den = b.den THEN Rat(a.num + b.num, a.den)
    ELSE LET l == (a.den \div GCD(a.den, b.den)) * b.den
         IN  Rat(a.num * (l \div a.den) + b.num * (l \div b.den), l)

Neg(a) == IF a.nan THEN NaN ELSE [nan |-> FALSE, num |-> -a.num, den |-> a.den]

Sub(a, b) == Add(a, Neg(b))

Mul(a, b) ==
    IF a.nan \/ b.nan THEN NaN
    ELSE IF a.num = 0 \/ b.num = 0 THEN [nan |-> FALSE, num |-> 0, den |-> 1]
    ELSE LET g1 == GCD(a.num, b.den)
             g2 == GCD(b.num, a.den)
         IN  [nan |-> FALSE, num |-> (a.num \div g1) * (b.num \div g2),
              den |-> (a.den \div g2) * (b.den \div g1)]

Div(a, b) ==
    IF a.nan \/ b.nan \/ b.num = 0 THEN NaN
    ELSE Mul(a, Rat(b.den, b.num))

\* a <= b; any comparison with NaN is False
Leq(a, b) == ~a.nan /\ ~b.nan /\ a.num * b.den <= b.num * a.den

\* Python's min(a, b): b if b < a else a
Min(a, b) == IF ~Leq(a, b) /\ Leq(b, a) THEN b ELSE a

RECURSIVE SumInts(_)
SumInts(s) == IF s = <<>> THEN 0 ELSE Head(s) + SumInts(Tail(s))

RECURSIVE SumProd(_, _)
SumProd(s, t) == IF s = <<>> THEN 0 ELSE Head(s) * Head(t) + SumProd(Tail(s), Tail(t))

Column(rows, c) == [i \in 1..Len(rows) |-> rows[i][c]]

RECURSIVE SelectRows(_, _, _)
\* df[df['Year'] >= lo & df['Year'] <= hi] on the rows, order kept
SelectRows(rows, lo, hi) ==
    IF rows = <<>> THEN <<>>
    ELSE IF Head(rows)[YEAR] >= lo /\ Head(rows)[YEAR] <= hi
         THEN <<Head(rows)>> \o SelectRows(Tail(rows), lo, hi)
         ELSE SelectRows(Tail(rows), lo, hi)

RECURSIVE MaxOf(_)
MaxOf(s) == IF Len(s) = 1 THEN s[1]
            ELSE LET m == MaxOf(Tail(s)) IN IF s[1] >= m THEN s[1] ELSE m

RECURSIVE MinOf(_)
MinOf(s) == IF Len(s) = 1 THEN s[1]
            ELSE LET m == MinOf(Tail(s)) IN IF s[1] <= m THEN s[1] ELSE m

-----------------------------------------------------------------------------
(* load_generation_data, lines 108-146 *)

SheetRow(y, e) == [year |-> y, pv |-> e[1], on |-> e[2], off |-> e[3]]

RECURSIVE Unique(_, _)
\* df['Year'].unique(): the years in order of first appearance
Unique(rows, seen) ==
    IF rows = <<>> THEN <<>>
    ELSE IF Head(rows).year \in seen THEN Unique(Tail(rows), seen)
         ELSE <<Head(rows).year>> \o Unique(Tail(rows), seen \cup {Head(rows).year})

RECURSIVE YearTotals(_, _)
\* sums of the three columns over the rows of year y
YearTotals(rows, y) ==
    IF rows = <<>> THEN <<0, 0, 0>>
    ELSE LET r == Head(rows)
             t == YearTotals(Tail(rows), y)
         IN  IF r.year = y THEN <<r.pv + t[1], r.on + t[2], r.off + t[3]>> ELSE t

AnnualRecord(rows, y) ==
    LET t == YearTotals(rows, y)
    IN  (YEAR :> y) @@ (PV :> t[1]) @@ (WIND_ON :> t[2]) @@ (WIND_OFF :> t[3])
        @@ (TOTAL_GEN :> t[1] + t[2] + t[3])

\* readable = FALSE: reading the workbook raised, the except branch returns
\* pd.DataFrame(); no rows: pd.DataFrame(annual_data) of an empty list
load_generation_data(readable, rows) ==
    IF ~readable \/ rows = <<>> THEN EmptyDataFrame
    ELSE LET ys == Unique(rows, {})
         IN  [columns |-> GenColumns,
              rows |-> [i \in 1..Len(ys) |-> AnnualRecord(rows, ys[i])]]

-----------------------------------------------------------------------------
(* generate_future_scenarios_enhanced, lines 750-876: the baseline *)

LAST_YEAR == "Last Year Available (2025)"
AVG_3Y == "3-Year Average (2023-2025)"
TREND_5Y == "5-Year Trend (2021-2025)"
FULL_TREND == "Full Historical Trend (2015-2025)"

Methods == <<LAST_YEAR, AVG_3Y, TREND_5Y, FULL_TREND>>

DefaultBaseYear == 2025
DefaultSolar == 15
DefaultWindOnshore == 35
DefaultWindOffshore == 5

AvgFromYear == 2023
AvgBaseYear == 2025
TrendFromYear == 2021
TrendBaseYear == 2025
FullTrendBaseYear == 2025

\* df[df['Year'] >= y]
FromYear(rows, y) == SelectRows(rows, y, MaxOf(<<y>> \o Column(rows, YEAR)))

\* a row of the frame with its cells as numbers
NumRow(r, cols) == [c \in cols |-> IF c = YEAR THEN r[c] ELSE Num(r[c])]

\* mutant of LastYearBaseData: the last row of the frame (iloc[-1]) instead of
\* the row of the largest year
LastYearBaseData_LastRow(df) ==
    LET last == df.rows[Len(df.rows)]
    IN  [error |-> "none", base_year |-> last[YEAR],
         base_data |-> [columns |-> df.columns, rows |-> <<NumRow(last, df.columns)>>]]

\* base_df['Year'].max() and base_df[base_df['Year'] == base_year]
LastYearBaseData(df) ==
    LET by == MaxOf(Column(df.rows, YEAR))
        sel == SelectRows(df.rows, by, by)
    IN  [error |-> "none", base_year |-> by,
         base_data |-> [columns |-> df.columns,
                        rows |-> [i \in 1..Len(sel) |-> NumRow(sel[i], df.columns)]]]

\* Series.mean(): NaN over no rows
Mean(s) == Rat(SumInts(s), Len(s))

\* recent_years.mean(numeric_only=True).to_frame().T, then ['Year'] = base_year
AverageBaseData(df) ==
    LET recent_years == FromYear(df.rows, AvgFromYear)
    IN  [error |-> "none", base_year |-> AvgBaseYear,
         base_data |-> [columns |-> df.columns,
                        rows |-> << [c \in df.columns |->
                                       IF c = YEAR THEN AvgBaseYear
                                       ELSE Mean(Column(recent_years, c))] >>]]

\* scipy.stats.linregress(x, y): raises on empty input and on identical x of
\* several points; one point gives slope 0/0 = NaN
linregress(x, y) ==
    LET n == Len(x)
    IN  IF n = 0 THEN [error |-> "ValueError", slope |-> NaN, intercept |-> NaN]
        ELSE IF n > 1 /\ MaxOf(x) = MinOf(x)
             THEN [error |-> "ValueError", slope |-> NaN, intercept |-> NaN]
        ELSE LET ssxm == Rat(n * SumProd(x, x) - SumInts(x) * SumInts(x), n * n)
                 ssxym == Rat(n * SumProd(x, y) - SumInts(x) * SumInts(y), n * n)
                 xmean == Rat(SumInts(x), n)
                 ymean == Rat(SumInts(y), n)
                 slope == Div(ssxym, ssxm)
             IN  [error |-> "none", slope |-> slope,
                  intercept |-> Sub(ymean, Mul(slope, xmean))]

\* trend_values[tech] = slope * base_year + intercept
TrendValue(rows, tech, by) ==
    LET fit == linregress(Column(rows, YEAR), Column(rows, tech))
    IN  [error |-> fit.error,
         value |-> Add(Mul(fit.slope, Num(by)), fit.intercept)]

\* pd.DataFrame([trend_values]) and base_data['Year'] = base_year, unless a
\* regression raised
TrendFrame(fits, techs, by) ==
    IF \E t \in techs : fits[t].error # "none"
    THEN [error |-> "ValueError", base_year |-> by, base_data |-> EmptyDataFrame]
    ELSE [error |-> "none", base_year |-> by,
          base_data |-> [columns |-> techs \cup {YEAR},
                         rows |-> << [c \in techs \cup {YEAR} |->
                                        IF c = YEAR THEN by ELSE fits[c].value] >>]]

\* the loop over the three technologies present in the frame
TrendBaseData(rows, columns, by) ==
    TrendFrame([t \in {Techs[i] : i \in 1..Len(Techs)} \cap columns |->
                    TrendValue(rows, t, by)],
               {Techs[i] : i \in 1..Len(Techs)} \cap columns, by)

\* lines 764-806: the if/elif chain on projection_method
BaseData(df, method) ==
    IF method = LAST_YEAR THEN LastYearBaseData(df)
    ELSE IF method = AVG_3Y THEN AverageBaseData(df)
    ELSE IF method = TREND_5Y
         THEN TrendBaseData(FromYear(df.rows, TrendFromYear), df.columns, TrendBaseYear)
    ELSE TrendBaseData(df.rows, df.columns, FullTrendBaseYear)

DefaultBaseValues ==
    [solar_mwh |-> Num(DefaultSolar),
     wind_onshore_mwh |-> Num(DefaultWindOnshore),
     wind_offshore_mwh |-> Num(DefaultWindOffshore)]

\* mutant of ExtractBaseValues: a value below zero is floored at zero
ExtractBaseValues_FlooredAtZero(base_data) ==
    LET cell(c, dflt) ==
            IF c \notin base_data.columns THEN Num(dflt)
            ELSE IF Leq(base_data.rows[1][c], Num(0)) THEN Num(0)
            ELSE base_data.rows[1][c]
    IN  [solar_mwh |-> cell(PV, DefaultSolar),
         wind_onshore_mwh |-> cell(WIND_ON, DefaultWindOnshore),
         wind_offshore_mwh |-> cell(WIND_OFF, DefaultWindOffshore)]

\* lines 808-813: base_data[col].values[0] if col in base_data.columns else default
ExtractBaseValues(base_data) ==
    LET cell(c, dflt) == IF c \in base_data.columns THEN base_data.rows[1][c] ELSE Num(dflt)
    IN  [solar_mwh |-> cell(PV, DefaultSolar),
         wind_onshore_mwh |-> cell(WIND_ON, DefaultWindOnshore),
         wind_offshore_mwh |-> cell(WIND_OFF, DefaultWindOffshore)]

\* lines 808-813 after the method's branch, or the exception it raised
BaselineFrom(b) ==
    IF b.error # "none"
    THEN [error |-> b.error, base_year |-> b.base_year, base_values |-> DefaultBaseValues]
    ELSE [error |-> "none", base_year |-> b.base_year,
          base_values |-> ExtractBaseValues(b.base_data)]

\* mutant of Baseline: the base_df.empty branch is missing, so base_df['Year']
\* raises KeyError on the frame without columns
Baseline_NoEmptyBranch(df, method) ==
    IF IsEmpty(df)
    THEN [error |-> "KeyError", base_year |-> DefaultBaseYear, base_values |-> DefaultBaseValues]
    ELSE BaselineFrom(BaseData(df, method))

\* lines 755-813: base_year and base_values, or the exception raised
Baseline(df, method) ==
    IF IsEmpty(df)
    THEN [error |-> "none", base_year |-> DefaultBaseYear, base_values |-> DefaultBaseValues]
    ELSE BaselineFrom(BaseData(df, method))

-----------------------------------------------------------------------------
(* generate_future_scenarios_enhanced: scenario parameters, lines 815-847 *)

CONSERVATIVE == "Conservative"
BAU == "Business as Usual"
AMBITIOUS == "Ambitious"
CUSTOM == "Custom"

ScenarioTypes == <<BAU, CONSERVATIVE, AMBITIOUS, CUSTOM>>

\* rates and shares are written in thousandths: 0.075 is Permille(75)
Permille(k) == Rat(k, 1000)

ConservativeParams ==
    [solar_growth |-> Permille(40), wind_onshore_growth |-> Permille(20),
     wind_offshore_growth |-> Permille(60), efficiency_improvement |-> Permille(5),
     renewable_target_2050 |-> Permille(700)]

BusinessAsUsualParams ==
    [solar_growth |-> Permille(75), wind_onshore_growth |-> Permille(40),
     wind_offshore_growth |-> Permille(120), efficiency_improvement |-> Permille(15),
     renewable_target_2050 |-> Permille(850)]

AmbitiousParams ==
    [solar_growth |-> Permille(120), wind_onshore_growth |-> Permille(70),
     wind_offshore_growth |-> Permille(180), efficiency_improvement |-> Permille(25),
     renewable_target_2050 |-> Permille(950)]

\* the dict of lines 841-847 and 881-887 from the four slider values, which
\* are percentages held in tenths of a percent
ParamsFromSliders(w) ==
    [solar_growth |-> Permille(w.solar_growth),
     wind_onshore_growth |-> Permille(w.wind_onshore_growth),
     wind_offshore_growth |-> Permille(w.wind_offshore_growth),
     efficiency_improvement |-> Permille(w.efficiency_improvement),
     renewable_target_2050 |-> Permille(900)]

\* mutant of ScenarioParams: custom_params, when given, are used whatever the
\* scenario name
ScenarioParams_CustomFirst(sc, cp, w) ==
    IF cp # None THEN [error |-> "none", params |-> cp]
    ELSE IF sc = CONSERVATIVE THEN [error |-> "none", params |-> ConservativeParams]
    ELSE IF sc = BAU THEN [error |-> "none", params |-> BusinessAsUsualParams]
    ELSE IF sc = AMBITIOUS THEN [error |-> "none", params |-> AmbitiousParams]
    ELSE IF w # None THEN [error |-> "none", params |-> ParamsFromSliders(w)]
    ELSE [error |-> "NameError", params |-> None]

\* mutant of ScenarioParams: the else branch overwrites the target of
\* custom_params with 0.90
ScenarioParams_FixedCustomTarget(sc, cp, w) ==
    IF sc = CONSERVATIVE THEN [error |-> "none", params |-> ConservativeParams]
    ELSE IF sc = BAU THEN [error |-> "none", params |-> BusinessAsUsualParams]
    ELSE IF sc = AMBITIOUS THEN [error |-> "none", params |-> AmbitiousParams]
    ELSE IF cp # None
         THEN [error |-> "none",
               params |-> [cp EXCEPT !.renewable_target_2050 = Permille(900)]]
    ELSE IF w # None THEN [error |-> "none", params |-> ParamsFromSliders(w)]
    ELSE [error |-> "NameError", params |-> None]

\* the if/elif chain on scenario_type; the else branch reads the module-level
\* slider variables when custom_params is falsy, a NameError if they were
\* never assigned
ScenarioParams(sc, cp, w) ==
    IF sc = CONSERVATIVE THEN [error |-> "none", params |-> ConservativeParams]
    ELSE IF sc = BAU THEN [error |-> "none", params |-> BusinessAsUsualParams]
    ELSE IF sc = AMBITIOUS THEN [error |-> "none", params |-> AmbitiousParams]
    ELSE IF cp # None THEN [error |-> "none", params |-> cp]
    ELSE IF w # None THEN [error |-> "none", params |-> ParamsFromSliders(w)]
    ELSE [error |-> "NameError", params |-> None]

-----------------------------------------------------------------------------
(* generate_future_scenarios_enhanced: the projection, lines 849-876 *)

HorizonYear == 2050
TOTAL_REN == "Total Renewable [MWh]"
SHARE_PCT == "Renewable Share [%]"
SCENARIO == "Scenario"
PROJECTION_METHOD == "Projection_Method"
ShareFloor == 450
Scale == 1000

\* mutant of Powers: the exponent is left out, every year gets (1 + rate)
Powers_NoExponent(rate, n) ==
    [i \in 1..n |-> (Scale * (rate.den + rate.num)) \div rate.den]

RECURSIVE Powers(_, _)
\* <<(1 + rate) ** 1, ..., (1 + rate) ** n>> in steps of 1/Scale, each power
\* the floor of the one before times (1 + rate)
Powers(rate, n) ==
    IF n = 0 THEN <<>>
    ELSE LET before == Powers(rate, n - 1)
             last == IF n = 1 THEN Scale ELSE before[n - 1]
         IN  Append(before, (last * (rate.den + rate.num)) \div rate.den)

\* base * ((1 + rate) ** years_from_base), given the power
Compound(base, rate, power) ==
    IF rate.nan THEN NaN ELSE Mul(base, Rat(power, Scale))

\* mutant of RenewableShare: the ramp without the min
RenewableShare_NoCap(target, t, by) ==
    Add(Permille(ShareFloor),
        Mul(Sub(target, Permille(ShareFloor)), Rat(t, HorizonYear - by)))

\* mutant of RenewableShare: the ramp runs over the 25 years from 2025, not
\* over 2050 - base_year
RenewableShare_RampFrom2025(target, t, by) ==
    Min(target,
        Add(Permille(ShareFloor),
            Mul(Sub(target, Permille(ShareFloor)), Rat(t, HorizonYear - DefaultBaseYear))))

\* min(target, 0.45 + (target - 0.45) * (years_from_base / (2050 - base_year)))
RenewableShare(target, t, by) ==
    Min(target,
        Add(Permille(ShareFloor),
            Mul(Sub(target, Permille(ShareFloor)), Rat(t, HorizonYear - by))))

ProjectionColumns ==
    {YEAR, PV, WIND_ON, WIND_OFF, TOTAL_REN, SHARE_PCT, SCENARIO, PROJECTION_METHOD}

\* the dict appended at lines 865-874
ProjectionRow(year, solar, wind_onshore, wind_offshore, total_renewable, renewable_share, sc, method) ==
    [c \in ProjectionColumns |->
        IF c = YEAR THEN year
        ELSE IF c = PV THEN solar
        ELSE IF c = WIND_ON THEN wind_onshore
        ELSE IF c = WIND_OFF THEN wind_offshore
        ELSE IF c = TOTAL_REN THEN total_renewable
        ELSE IF c = SHARE_PCT THEN Mul(renewable_share, Num(100))
        ELSE IF c = SCENARIO THEN sc
        ELSE method]

\* mutant of TotalRenewable: the total leaves out wind offshore
TotalRenewable_WithoutOffshore(solar, wind_onshore, wind_offshore) ==
    Add(solar, wind_onshore)

\* total_renewable = solar + wind_onshore + wind_offshore
TotalRenewable(solar, wind_onshore, wind_offshore) ==
    Add(Add(solar, wind_onshore), wind_offshore)

\* mutant of RecordOf: the share is the total over a consumption of 500 TWh,
\* capped at the target
RecordOf_ShareFromTotal(year, by, solar, wind_onshore, wind_offshore, ps, sc, method) ==
    ProjectionRow(year, solar, wind_onshore, wind_offshore,
                  TotalRenewable(solar, wind_onshore, wind_offshore),
                  Min(ps.renewable_target_2050,
                      Div(TotalRenewable(solar, wind_onshore, wind_offshore), Num(500))),
                  sc, method)

\* lines 861-874: the total, the share and the record, given the three values
RecordOf(year, by, solar, wind_onshore, wind_offshore, ps, sc, method) ==
    ProjectionRow(year, solar, wind_onshore, wind_offshore,
                  TotalRenewable(solar, wind_onshore, wind_offshore),
                  RenewableShare(ps.renewable_target_2050, year - by, by),
                  sc, method)

\* the body of the loop, lines 853-874; pw holds the three powers of this year
ProjectionRecord(year, by, bv, ps, sc, method, pw) ==
    RecordOf(year, by,
             Compound(bv.solar_mwh, ps.solar_growth, pw[1]),
             Compound(bv.wind_onshore_mwh, ps.wind_onshore_growth, pw[2]),
             Compound(bv.wind_offshore_mwh, ps.wind_offshore_growth, pw[3]),
             ps, sc, method)

\* mutant of Projection: the solar growth rate compounds all three
\* technologies
Projection_SolarRateForAll(by, bv, ps, sc, method) ==
    LET n == IF HorizonYear > by THEN HorizonYear - by ELSE 0
        p1 == Powers(ps.solar_growth, n)
    IN  [i \in 1..n |->
            ProjectionRecord(by + i, by, bv, ps, sc, method, <<p1[i], p1[i], p1[i]>>)]

\* years = list(range(base_year + 1, 2051)) and the loop over it
Projection(by, bv, ps, sc, method) ==
    LET n == IF HorizonYear > by THEN HorizonYear - by ELSE 0
        p1 == Powers(ps.solar_growth, n)
        p2 == Powers(ps.wind_onshore_growth, n)
        p3 == Powers(ps.wind_offshore_growth, n)
    IN  [i \in 1..n |->
            ProjectionRecord(by + i, by, bv, ps, sc, method, <<p1[i], p2[i], p3[i]>>)]

\* lines 849-876 on the baseline b and the parameters p, or the exception
\* raised before them
ProjectFrom(b, p, sc, method) ==
    IF b.error # "none"
    THEN [error |-> b.error, scenario_data |-> <<>>, params |-> p.params,
          base_year |-> b.base_year, base_values |-> b.base_values]
    ELSE IF p.error # "none"
    THEN [error |-> p.error, scenario_data |-> <<>>, params |-> p.params,
          base_year |-> b.base_year, base_values |-> b.base_values]
    ELSE [error |-> "none", params |-> p.params,
          scenario_data |-> Projection(b.base_year, b.base_values, p.params, sc, method),
          base_year |-> b.base_year, base_values |-> b.base_values]

\* the whole function: (scenario_data, base_year, base_values), or the
\* exception that leaves it
generate_future_scenarios_enhanced(base_df, sc, method, cp, w) ==
    ProjectFrom(Baseline(base_df, method), ScenarioParams(sc, cp, w), sc, method)

-----------------------------------------------------------------------------
(* The scenario metrics, lines 966-990, for the year of the slider of lines *)
(* 699-705                                                                  *)

TargetYearMin == 2026
TargetYearMax == 2050
TargetYearDefault == 2040
TargetYearStep == 5

\* the values of selected_year: the slider's initial value, and the steps from
\* its minimum up to its maximum
TargetYears ==
    {TargetYearDefault}
    \cup {y \in TargetYearMin..TargetYearMax : (y - TargetYearMin) % TargetYearStep = 0}

\* scenario_data[scenario_data['Year'] == selected_year]
YearData(rows, selected_year) == SelectRows(rows, selected_year, selected_year)

\* the two guards of lines 969 and 973 around the four metrics
MetricsDisplayed(rows, selected_year) ==
    rows # <<>> /\ YearData(rows, selected_year) # <<>>

-----------------------------------------------------------------------------
(* The CSV export, lines 1263-1274 *)

\* the columns of pd.DataFrame(scenario_data): the keys of the dicts of lines
\* 865-874 in the order they are written
ProjectionColumnOrder ==
    <<YEAR, PV, WIND_ON, WIND_OFF, TOTAL_REN, SHARE_PCT, SCENARIO, PROJECTION_METHOD>>

\* mutant of to_csv: pandas' default index=True, which puts the row index in
\* front of every line
to_csv_WithIndex(rows) ==
    [header |-> <<"">> \o ProjectionColumnOrder,
     lines |-> [i \in 1..Len(rows) |->
                   <<i - 1>> \o [k \in 1..Len(ProjectionColumnOrder) |->
                                   rows[i][ProjectionColumnOrder[k]]]]]

\* scenario_data.to_csv(index=False): the header line and one line of cells
\* per record, in the order of the columns
to_csv(rows) ==
    [header |-> ProjectionColumnOrder,
     lines |-> [i \in 1..Len(rows) |->
                   [k \in 1..Len(ProjectionColumnOrder) |->
                       rows[i][ProjectionColumnOrder[k]]]]]

-----------------------------------------------------------------------------
(* Inputs *)

\* the sequences over S of length at most n
SeqsUpTo(S, n) == UNION {[1..k -> S] : k \in 0..n}

SheetRows == {SheetRow(y, e) : y \in YearsIn, e \in EnergyIn}

Workbooks ==
    {[readable |-> TRUE, rows |-> r] : r \in SeqsUpTo(SheetRows, MaxRows)}
    \cup {[readable |-> FALSE, rows |-> <<>>]}

\* the workbooks with one row per year, the years in ascending order, as the
\* file All_years_by_sheet is laid out
YearlyWorkbooks ==
    {w \in Workbooks :
        \A i \in 1..Len(w.rows) : \A j \in 1..Len(w.rows) :
            i < j => w.rows[i].year < w.rows[j].year}

\* the sidebar of the historical tab as it is first drawn, and with a shorter
\* year range and two of the three technology boxes unticked
SidebarChoices ==
    {[year_range |-> <<2015, 2025>>,
      show |-> [solar |-> TRUE, wind_onshore |-> TRUE, wind_offshore |-> TRUE]],
     [year_range |-> <<2024, 2025>>,
      show |-> [solar |-> TRUE, wind_onshore |-> FALSE, wind_offshore |-> FALSE]]}

\* slider positions in tenths of a percent: the defaults and the minima
SliderDefaults ==
    [solar_growth |-> 75, wind_onshore_growth |-> 40, wind_offshore_growth |-> 120,
     efficiency_improvement |-> 15]

SliderMinima ==
    [solar_growth |-> 5, wind_onshore_growth |-> 5, wind_offshore_growth |-> 5,
     efficiency_improvement |-> 0]

SliderChoices == {SliderDefaults, SliderMinima}

\* what a caller of the function may pass as custom_params: a dict the
\* script builds from the sliders, and one with another target
CustomParamsIn ==
    {ParamsFromSliders(SliderMinima)}
    \cup {[solar_growth |-> Permille(75), wind_onshore_growth |-> Permille(40),
           wind_offshore_growth |-> Permille(120), efficiency_improvement |-> Permille(15),
           renewable_target_2050 |-> Permille(300)]}

\* a scenario name that is none of the select box
OtherScenarioNames == {"Moderate"}

-----------------------------------------------------------------------------
(* One run of the script *)

Init ==
    /\ pc = "load"
    /\ error = "none"
    /\ workbook \in Workbooks
    /\ generation_df = None
    /\ year_range = None
    /\ show_technology = None
    /\ generation_df_filtered = None
    /\ projection_method = None
    /\ scenario_type = None
    /\ sliders = None
    /\ custom_params = None
    /\ call = None
    /\ params = None
    /\ scenario_data = None
    /\ base_year = None
    /\ base_values = None
    /\ method_comparison = None
    /\ all_scenarios = None
    /\ previous = None
    /\ csv = None

\* line 198
Load ==
    /\ pc = "load"
    /\ generation_df' = load_generation_data(workbook.readable, workbook.rows)
    /\ pc' = "historical"
    /\ UNCHANGED <<error, workbook, year_range, generation_df_filtered, projection_method,
                   scenario_type, sliders, custom_params, call, params, scenario_data,
                   base_year, base_values, method_comparison, all_scenarios, previous, csv,
                   show_technology>>

\* lines 213-249: the year range slider, then generation_df['Year'], a KeyError
\* on a frame without that column.  The consumption, forecast and capacity
\* tables of lines 246-249 are taken as loaded.
TabHistorical ==
    /\ pc = "historical"
    /\ \E h \in SidebarChoices : \E r \in {h.year_range} :
        /\ year_range' = r
        /\ show_technology' = h.show
        /\ IF YEAR \in generation_df.columns
           THEN /\ generation_df_filtered' =
                       [columns |-> generation_df.columns,
                        rows |-> SelectRows(generation_df.rows, r[1], r[2])]
                /\ pc' = "controls"
                /\ error' = error
           ELSE /\ generation_df_filtered' = generation_df_filtered
                /\ pc' = "crashed"
                /\ error' = "KeyError"
    /\ UNCHANGED <<workbook, generation_df, projection_method, scenario_type, sliders,
                   custom_params, call, params, scenario_data, base_year, base_values,
                   method_comparison, all_scenarios, previous, csv>>

\* lines 673-747: the method and scenario select boxes; the sliders exist only
\* under "Custom"
Controls ==
    /\ pc = "controls"
    /\ \E m \in {Methods[i] : i \in 1..Len(Methods)},
          sc \in {ScenarioTypes[i] : i \in 1..Len(ScenarioTypes)} :
        /\ projection_method' = m
        /\ scenario_type' = sc
        /\ IF sc = CUSTOM THEN sliders' \in SliderChoices ELSE sliders' = None
    /\ pc' = "prepare"
    /\ UNCHANGED <<error, workbook, generation_df, year_range, generation_df_filtered,
                   custom_params, call, params, scenario_data, base_year, base_values,
                   method_comparison, all_scenarios, previous, csv, show_technology>>

\* lines 878-887
PrepareCustom ==
    /\ pc = "prepare"
    /\ custom_params' = IF scenario_type = CUSTOM /\ sliders # None
                        THEN ParamsFromSliders(sliders) ELSE None
    /\ pc' = "project"
    /\ UNCHANGED <<error, workbook, generation_df, year_range, generation_df_filtered,
                   projection_method, scenario_type, sliders, call, params, scenario_data,
                   base_year, base_values, method_comparison, all_scenarios, previous, csv,
                   show_technology>>

\* the assignment of a call's result, or the exception leaving the script
Returns(r) ==
    IF r.error = "none"
    THEN /\ scenario_data' = r.scenario_data
         /\ base_year' = r.base_year
         /\ base_values' = r.base_values
         /\ params' = r.params
         /\ pc' = "returned"
         /\ error' = error
    ELSE /\ UNCHANGED <<params, scenario_data, base_year, base_values>>
         /\ pc' = "crashed"
         /\ error' = r.error

\* mutant of MainProjection: the function is given the series filtered by the
\* year range
MainProjection_FromFiltered ==
    /\ pc = "project"
    /\ call' = [base_df |-> generation_df_filtered, scenario_type |-> scenario_type,
                projection_method |-> projection_method, custom_params |-> custom_params]
    /\ \E r \in {generate_future_scenarios_enhanced(generation_df_filtered, scenario_type,
                       projection_method, custom_params, sliders)} : Returns(r)
    /\ UNCHANGED <<workbook, generation_df, year_range, generation_df_filtered,
                   projection_method, scenario_type, sliders, custom_params,
                   method_comparison, all_scenarios, previous, csv, show_technology>>

\* lines 889-895
MainProjection ==
    /\ pc = "project"
    /\ call' = [base_df |-> generation_df, scenario_type |-> scenario_type,
                projection_method |-> projection_method, custom_params |-> custom_params]
    /\ \E r \in {generate_future_scenarios_enhanced(generation_df, scenario_type,
                       projection_method, custom_params, sliders)} : Returns(r)
    /\ UNCHANGED <<workbook, generation_df, year_range, generation_df_filtered,
                   projection_method, scenario_type, sliders, custom_params,
                   method_comparison, all_scenarios, previous, csv, show_technology>>

\* lines 1003-1134, the tabs "Generation Projections" and "Renewable Share
\* Development": scenario_data['Year'], a KeyError on the frame without columns
\* that an empty list of records makes
TabProjections ==
    /\ pc = "returned"
    /\ IF scenario_data = <<>>
       THEN pc' = "crashed" /\ error' = "KeyError"
       ELSE pc' = "tab3" /\ error' = error
    /\ UNCHANGED <<workbook, generation_df, year_range, generation_df_filtered,
                   projection_method, scenario_type, sliders, custom_params, call, params,
                   scenario_data, base_year, base_values, method_comparison,
                   all_scenarios, previous, csv, show_technology>>

\* the first exception of a list of calls
FirstError(rs) ==
    rs[CHOOSE i \in 1..Len(rs) :
          rs[i].error # "none" /\ \A j \in 1..(i - 1) : rs[j].error = "none"].error

\* mutant of CompareMethods: every call is made with the first method
CompareMethods_FirstMethod(sc, cp, w) ==
    [i \in 1..Len(Methods) |->
        generate_future_scenarios_enhanced(generation_df, sc, Methods[1], cp, w)]

\* lines 1143-1147: one call per method, with the same scenario and custom
\* parameters
CompareMethods(sc, cp, w) ==
    [i \in 1..Len(Methods) |->
        generate_future_scenarios_enhanced(generation_df, sc, Methods[i], cp, w)]

\* method_comparison after the loop, or the exception that left it
Compared(rs) ==
    IF \A i \in 1..Len(rs) : rs[i].error = "none"
    THEN /\ method_comparison' = [i \in 1..Len(rs) |-> rs[i].scenario_data]
         /\ pc' = "tab4"
         /\ error' = error
    ELSE /\ method_comparison' = method_comparison
         /\ pc' = "crashed"
         /\ error' = FirstError(rs)

\* lines 1137-1148, the tab "Method Comparison", with the scenario and the
\* custom parameters of the run
TabMethodComparison ==
    /\ pc = "tab3"
    /\ \E rs \in {CompareMethods(scenario_type, custom_params, sliders)} : Compared(rs)
    /\ UNCHANGED <<workbook, generation_df, year_range, generation_df_filtered,
                   projection_method, scenario_type, sliders, custom_params, call, params,
                   scenario_data, base_year, base_values, all_scenarios, previous, csv,
                   show_technology>>

\* the scenarios of the tab "Scenario Comparison": the three of line 1176, and
\* "Custom" when it is the scenario of the run
ComparedScenarios ==
    IF scenario_type = CUSTOM THEN <<CONSERVATIVE, BAU, AMBITIOUS, CUSTOM>>
    ELSE <<CONSERVATIVE, BAU, AMBITIOUS>>

\* sc_data['Scenario'] = sc_type
TagScenario(rows, sc) == [i \in 1..Len(rows) |-> [rows[i] EXCEPT ![SCENARIO] = sc]]

\* mutant of TabScenarioComparison: the frames the calls return share their
\* data with scenario_data, so that sc_data['Scenario'] = sc_type writes into
\* the main projection as well
TabScenarioComparison_TagsMain ==
    /\ pc = "tab4"
    /\ \E rs \in {[i \in 1..Len(ComparedScenarios) |->
                     generate_future_scenarios_enhanced(generation_df, ComparedScenarios[i],
                         projection_method,
                         IF ComparedScenarios[i] = CUSTOM THEN custom_params ELSE None,
                         sliders)]} :
          IF \A i \in 1..Len(rs) : rs[i].error = "none"
          THEN /\ all_scenarios' = [i \in 1..Len(rs) |->
                                      TagScenario(rs[i].scenario_data, ComparedScenarios[i])]
               /\ scenario_data' =
                     TagScenario(scenario_data, ComparedScenarios[Len(ComparedScenarios)])
               /\ pc' = "done"
               /\ error' = error
          ELSE /\ all_scenarios' = all_scenarios
               /\ scenario_data' = scenario_data
               /\ pc' = "crashed"
               /\ error' = FirstError(rs)
    /\ UNCHANGED <<workbook, generation_df, year_range, generation_df_filtered,
                   projection_method, scenario_type, sliders, custom_params, call, params,
                   base_year, base_values, method_comparison, previous, csv,
                   show_technology>>

\* lines 1172-1186, the tab "Scenario Comparison": the three named scenarios
\* are called without custom parameters, "Custom" with those of the run
TabScenarioComparison ==
    /\ pc = "tab4"
    /\ \E rs \in {[i \in 1..Len(ComparedScenarios) |->
                     generate_future_scenarios_enhanced(generation_df, ComparedScenarios[i],
                         projection_method,
                         IF ComparedScenarios[i] = CUSTOM THEN custom_params ELSE None,
                         sliders)]} :
          IF \A i \in 1..Len(rs) : rs[i].error = "none"
          THEN /\ all_scenarios' = [i \in 1..Len(rs) |->
                                      TagScenario(rs[i].scenario_data, ComparedScenarios[i])]
               /\ pc' = "done"
               /\ error' = error
          ELSE /\ all_scenarios' = all_scenarios
               /\ pc' = "crashed"
               /\ error' = FirstError(rs)
    /\ UNCHANGED <<workbook, generation_df, year_range, generation_df_filtered,
                   projection_method, scenario_type, sliders, custom_params, call, params,
                   scenario_data, base_year, base_values, method_comparison, previous, csv,
                   show_technology>>

\* lines 1263-1274: the download button, drawn when scenario_data is not empty
Download ==
    /\ pc = "done"
    /\ csv' = IF scenario_data = <<>> THEN csv ELSE to_csv(scenario_data)
    /\ pc' = "end"
    /\ UNCHANGED <<error, workbook, generation_df, year_range, generation_df_filtered,
                   projection_method, scenario_type, sliders, custom_params, call, params,
                   scenario_data, base_year, base_values, method_comparison,
                   all_scenarios, previous, show_technology>>

Next ==
    \/ Load
    \/ TabHistorical
    \/ Controls
    \/ PrepareCustom
    \/ MainProjection
    \/ TabProjections
    \/ TabMethodComparison
    \/ TabScenarioComparison
    \/ Download

Spec == Init /\ [][Next]_vars

-----------------------------------------------------------------------------
(* One run of the script on a workbook laid out by year *)

InitYearly ==
    /\ pc = "load"
    /\ error = "none"
    /\ workbook \in YearlyWorkbooks
    /\ generation_df = None
    /\ year_range = None
    /\ show_technology = None
    /\ generation_df_filtered = None
    /\ projection_method = None
    /\ scenario_type = None
    /\ sliders = None
    /\ custom_params = None
    /\ call = None
    /\ params = None
    /\ scenario_data = None
    /\ base_year = None
    /\ base_values = None
    /\ method_comparison = None
    /\ all_scenarios = None
    /\ previous = None
    /\ csv = None

SpecYearly == InitYearly /\ [][Next]_vars

-----------------------------------------------------------------------------
(* The projection function on its own: called with any method, scenario and  *)
(* custom parameters on whatever the loader returned                          *)

InitFn ==
    /\ pc = "fn_load"
    /\ error = "none"
    /\ workbook \in Workbooks
    /\ generation_df = None
    /\ year_range = None
    /\ show_technology = None
    /\ generation_df_filtered = None
    /\ projection_method = None
    /\ scenario_type = None
    /\ sliders = None
    /\ custom_params = None
    /\ call = None
    /\ params = None
    /\ scenario_data = None
    /\ base_year = None
    /\ base_values = None
    /\ method_comparison = None
    /\ all_scenarios = None
    /\ previous = None
    /\ csv = None

FnLoad ==
    /\ pc = "fn_load"
    /\ generation_df' = load_generation_data(workbook.readable, workbook.rows)
    /\ pc' = "fn_call"
    /\ UNCHANGED <<error, workbook, year_range, generation_df_filtered, projection_method,
                   scenario_type, sliders, custom_params, call, params, scenario_data,
                   base_year, base_values, method_comparison, all_scenarios, previous, csv,
                   show_technology>>

FnCall ==
    /\ pc = "fn_call"
    /\ \E m \in {Methods[i] : i \in 1..Len(Methods)},
          sc \in {ScenarioTypes[i] : i \in 1..Len(ScenarioTypes)} \cup OtherScenarioNames,
          cp \in {None} \cup CustomParamsIn,
          w \in {None} \cup SliderChoices :
        \* the slider variables are varied only where the function reads them,
        \* and one dict of custom parameters goes with the names that are not
        \* "Custom"
        /\ (sc \in {CONSERVATIVE, BAU, AMBITIOUS} \/ cp # None) => w = None
        /\ sc # CUSTOM => cp \in {None, ParamsFromSliders(SliderMinima)}
        /\ sc \in OtherScenarioNames => w = None
        /\ sliders' = w
        /\ call' = [base_df |-> generation_df, scenario_type |-> sc,
                    projection_method |-> m, custom_params |-> cp]
        /\ \E r \in {generate_future_scenarios_enhanced(generation_df, sc, m, cp, w)} :
              Returns(r)
    /\ UNCHANGED <<workbook, generation_df, year_range, generation_df_filtered,
                   projection_method, scenario_type, custom_params,
                   method_comparison, all_scenarios, previous, csv, show_technology>>

NextFn == FnLoad \/ FnCall

SpecFn == InitFn /\ [][NextFn]_vars

-----------------------------------------------------------------------------
(* The projection function called a second time with the arguments of the    *)
(* first call, the module-level slider variables being whatever they are by  *)
(* then                                                                      *)

FnCallAgain ==
    /\ pc = "returned"
    /\ previous = None
    /\ previous' = [scenario_data |-> scenario_data, base_year |-> base_year,
                    base_values |-> base_values]
    /\ \E w \in {None} \cup SliderChoices :
        \* the slider variables are varied only where the function reads them
        /\ (call.scenario_type \in {CONSERVATIVE, BAU, AMBITIOUS}
              \/ call.custom_params # None) => w = sliders
        /\ sliders' = w
        /\ \E r \in {generate_future_scenarios_enhanced(call.base_df, call.scenario_type,
                           call.projection_method, call.custom_params, w)} : Returns(r)
    /\ UNCHANGED <<workbook, generation_df, year_range, generation_df_filtered,
                   projection_method, scenario_type, custom_params, call,
                   method_comparison, all_scenarios, csv, show_technology>>

NextTwice == FnLoad \/ FnCall \/ FnCallAgain

SpecTwice == InitFn /\ [][NextTwice]_vars

-----------------------------------------------------------------------------
(* The method comparison on its own: the loop of lines 1143-1147 on whatever *)
(* the loader returned, under the scenario controls a run can have           *)

FnCompare ==
    /\ pc = "fn_call"
    /\ \E sc \in {ScenarioTypes[i] : i \in 1..Len(ScenarioTypes)},
          w \in {None} \cup SliderChoices :
        \* lines 708-742 and 878-887: sliders and custom parameters exist
        \* under "Custom" only
        /\ sc = CUSTOM <=> w # None
        /\ scenario_type' = sc
        /\ sliders' = w
        /\ \E cp \in {IF sc = CUSTOM THEN ParamsFromSliders(w) ELSE None} :
              /\ custom_params' = cp
              /\ \E rs \in {CompareMethods(sc, cp, w)} : Compared(rs)
    /\ UNCHANGED <<workbook, generation_df, year_range, generation_df_filtered,
                   projection_method, call, params, scenario_data, base_year,
                   base_values, all_scenarios, previous, csv, show_technology>>

NextCompare == FnLoad \/ FnCompare

SpecCompare == InitFn /\ [][NextCompare]_vars

-----------------------------------------------------------------------------
(* Properties.  They are stated over the arguments of the last call (call)  *)
(* and what it returned, with their own arithmetic over the records of the  *)
(* series.                                                                  *)

Called == pc \in {"returned", "crashed"} /\ call # None

ReturnedFrom(method) == pc = "returned" /\ call.projection_method = method

SeriesRows == call.base_df.rows

SeriesIdx == 1..Len(SeriesRows)

SeriesMaxYear == CHOOSE y \in {SeriesRows[i][YEAR] : i \in SeriesIdx} :
                    \A j \in SeriesIdx : SeriesRows[j][YEAR] <= y

IdxFrom(y) == {i \in SeriesIdx : SeriesRows[i][YEAR] >= y}

RECURSIVE SumOver(_, _)
\* sum of f[i] over the finite index set I
SumOver(I, f) == IF I = {} THEN 0
                 ELSE LET i == CHOOSE k \in I : TRUE IN f[i] + SumOver(I \ {i}, f)

MeanOver(I, c) == Rat(SumOver(I, [i \in I |-> SeriesRows[i][c]]), Cardinality(I))

\* the least-squares line of column c on year over the records I, at year x0
FitAt(I, c, x0) ==
    LET n == Cardinality(I)
        sx == SumOver(I, [i \in I |-> SeriesRows[i][YEAR]])
        sy == SumOver(I, [i \in I |-> SeriesRows[i][c]])
        sxx == SumOver(I, [i \in I |-> SeriesRows[i][YEAR] * SeriesRows[i][YEAR]])
        sxy == SumOver(I, [i \in I |-> SeriesRows[i][YEAR] * SeriesRows[i][c]])
    IN  Rat(sy * (n * sxx - sx * sx) + (n * sxy - sx * sy) * (n * x0 - sx),
            n * (n * sxx - sx * sx))

BaseValueOf(c) == IF c = PV THEN base_values.solar_mwh
                  ELSE IF c = WIND_ON THEN base_values.wind_onshore_mwh
                  ELSE base_values.wind_offshore_mwh

TechSet == {PV, WIND_ON, WIND_OFF}

\* C1: every projection returned has exactly 2050 - base_year records, and
\* their years are base_year + 1, base_year + 2, ..., 2050 in this order.
C1_ProjectionLength ==
    pc = "returned" =>
        /\ Len(scenario_data) = 2050 - base_year
        /\ \A i \in 1..Len(scenario_data) : scenario_data[i][YEAR] = base_year + i

\* C2: on a series with at least one record, "Last Year Available" returns as
\* base year the largest year of the series and as base values the solar,
\* wind onshore and wind offshore cells of the record of that year.
C2_LatestYear ==
    (ReturnedFrom(LAST_YEAR) /\ ~IsEmpty(call.base_df)) =>
        \E i \in SeriesIdx :
            /\ \A j \in SeriesIdx : SeriesRows[j][YEAR] <= SeriesRows[i][YEAR]
            /\ base_year = SeriesRows[i][YEAR]
            /\ \A c \in TechSet : BaseValueOf(c) = Rat(SeriesRows[i][c], 1)

\* a series whose largest year is not in its last record, projected from the
\* last year
C2_Witness ==
    /\ ReturnedFrom(LAST_YEAR)
    /\ ~IsEmpty(call.base_df)
    /\ Len(SeriesRows) >= 2
    /\ SeriesRows[1][YEAR] > SeriesRows[Len(SeriesRows)][YEAR]
    /\ SeriesRows[1][PV] # SeriesRows[Len(SeriesRows)][PV]

\* C3: on a non-empty series, "3-Year Average" returns for each technology
\* the mean over exactly the records with year >= max_year - 2.
C3_RecentAverage ==
    (ReturnedFrom(AVG_3Y) /\ ~IsEmpty(call.base_df)) =>
        \A c \in TechSet : BaseValueOf(c) = MeanOver(IdxFrom(SeriesMaxYear - 2), c)

\* C4: on a non-empty series, each of the four methods returns as base year
\* the largest year of the series.
C4_ReferenceYearIsMaxYear ==
    (pc = "returned" /\ ~IsEmpty(call.base_df)) => base_year = SeriesMaxYear

\* C5: when the window of "5-Year Trend" (the records from max_year - 4 on,
\* here all of them also from 2021 on) holds exactly two records, the base
\* value of each technology is the value observed in the later of the two.
C5_TwoPointTrend ==
    (/\ ReturnedFrom(TREND_5Y)
     /\ ~IsEmpty(call.base_df)
     /\ Cardinality(IdxFrom(SeriesMaxYear - 4)) = 2
     /\ IdxFrom(SeriesMaxYear - 4) = IdxFrom(2021)) =>
        \A i \in SeriesIdx :
            SeriesRows[i][YEAR] = SeriesMaxYear =>
                \A c \in TechSet : BaseValueOf(c) = Rat(SeriesRows[i][c], 1)

\* C6: "5-Year Trend" returns for each technology the least-squares line over
\* the records with year >= max_year - 4, and "Full Historical Trend" the
\* line over all records, each evaluated at the largest year of the series
\* (whenever that window holds at least two records).
C6_TrendWindows ==
    /\ (/\ ReturnedFrom(TREND_5Y)
        /\ ~IsEmpty(call.base_df)
        /\ Cardinality(IdxFrom(SeriesMaxYear - 4)) >= 2) =>
           \A c \in TechSet :
               BaseValueOf(c) = FitAt(IdxFrom(SeriesMaxYear - 4), c, SeriesMaxYear)
    /\ (/\ ReturnedFrom(FULL_TREND)
        /\ ~IsEmpty(call.base_df)
        /\ Len(SeriesRows) >= 2) =>
           \A c \in TechSet : BaseValueOf(c) = FitAt(SeriesIdx, c, SeriesMaxYear)

\* C7 as claimed: a call on an empty series fails, whatever the method; it
\* never returns a baseline.
C7_EmptySeriesFails ==
    (Called /\ IsEmpty(call.base_df)) => pc # "returned"

\* C7 as amended: a call on an empty series does not fail in the baseline
\* step, whatever the method: it returns base year 2025 with the base values
\* 15, 35 and 5 TWh (15,000,000, 35,000,000 and 5,000,000 MWh) and the 25
\* records of 2026..2050.  The one call that fails is a call with "Custom",
\* or with a name that is none of the three named scenarios, and with neither
\* custom parameters nor slider variables, a NameError of the scenario step.
C7_EmptySeriesFallback ==
    (Called /\ IsEmpty(call.base_df)) =>
        \/ /\ pc = "returned"
           /\ base_year = 2025
           /\ base_values = [solar_mwh |-> Rat(15, 1), wind_onshore_mwh |-> Rat(35, 1),
                             wind_offshore_mwh |-> Rat(5, 1)]
           /\ Len(scenario_data) = 25
        \/ /\ pc = "crashed"
           /\ error = "NameError"
           /\ call.scenario_type \notin {CONSERVATIVE, BAU, AMBITIOUS}
           /\ call.custom_params = None
           /\ sliders = None

\* the regression method called on the empty frame of a workbook that could
\* not be read
C7_Witness ==
    /\ ReturnedFrom(TREND_5Y)
    /\ ~workbook.readable
    /\ IsEmpty(call.base_df)
    /\ Len(scenario_data) = 25

\* C8: when the window the regression runs on ("5-Year Trend": the records
\* from 2021 on; "Full Historical Trend": all records) holds fewer than two
\* distinct years, the call fails and returns no projection.
C8_TrendNeedsTwoYears ==
    (/\ Called
     /\ ~IsEmpty(call.base_df)
     /\ \/ /\ call.projection_method = TREND_5Y
           /\ Cardinality({SeriesRows[i][YEAR] : i \in IdxFrom(2021)}) < 2
        \/ /\ call.projection_method = FULL_TREND
           /\ Cardinality({SeriesRows[i][YEAR] : i \in SeriesIdx}) < 2) =>
        pc # "returned"

\* C9: when the generation data could not be loaded (reading the workbook
\* raised and the loader returned the empty table), the run does not crash,
\* and the projection it reaches has base year 2025 and the base values 15,
\* 35 and 5 TWh.
C9_LoadFailureFallsBack ==
    (pc # "load" /\ ~workbook.readable) =>
        /\ pc # "crashed"
        /\ pc = "returned" =>
              /\ base_year = 2025
              /\ base_values = [solar_mwh |-> Rat(15, 1), wind_onshore_mwh |-> Rat(35, 1),
                                wind_offshore_mwh |-> Rat(5, 1)]

\* C10: the projection fails whenever 2050 <= base_year; it never returns
\* (an empty projection) in that case.
C10_InvalidHorizonFails ==
    pc = "returned" => base_year < 2050

-----------------------------------------------------------------------------
(* Properties of the projection records *)

GrowthOf(c) == IF c = PV THEN params.solar_growth
               ELSE IF c = WIND_ON THEN params.wind_onshore_growth
               ELSE params.wind_offshore_growth

RECURSIVE PowerTable(_, _, _)
\* <<(1 + rate)^1, ..., (1 + rate)^n>> in steps of 1/Scale, grown from acc
PowerTable(rate, n, acc) ==
    IF Len(acc) >= n THEN acc
    ELSE PowerTable(rate, n,
            Append(acc, ((IF acc = <<>> THEN Scale ELSE acc[Len(acc)])
                            * (rate.num + rate.den)) \div rate.den))

RecordIdx == 1..Len(scenario_data)

\* the values of technology c are its base value times the powers pw
GrowsBy(c, pw) ==
    \A i \in RecordIdx :
        /\ scenario_data[i][YEAR] - base_year >= 1
        /\ scenario_data[i][c] =
              Mul(BaseValueOf(c), Rat(pw[scenario_data[i][YEAR] - base_year], Scale))

\* C11: in every record of a returned projection, with t = year - base_year,
\* the value of each technology is its base value times (1 + its own growth
\* rate) to the power t; the same expression at t = 0, where the power is 1,
\* is the base value.
C11_CompoundGrowth ==
    pc = "returned" =>
        \A c \in TechSet :
            /\ GrowsBy(c, PowerTable(GrowthOf(c), Len(scenario_data), <<>>))
            /\ Mul(BaseValueOf(c), Rat(Scale, Scale)) = BaseValueOf(c)

\* a projection of several years from base values that are numbers, none
\* zero, under three different growth rates
C11_Witness ==
    /\ pc = "returned"
    /\ Len(scenario_data) >= 2
    /\ \A c \in TechSet : ~BaseValueOf(c).nan /\ BaseValueOf(c).num # 0
    /\ Cardinality({GrowthOf(c) : c \in TechSet}) = 3
    /\ scenario_data[2][PV] # scenario_data[1][PV]

\* C12: in every record of a returned projection the total renewable value
\* is the sum of the record's solar, wind onshore and wind offshore values.
C12_TotalIsSum ==
    pc = "returned" =>
        \A i \in RecordIdx :
            scenario_data[i][TOTAL_REN] =
                Add(scenario_data[i][PV],
                    Add(scenario_data[i][WIND_ON], scenario_data[i][WIND_OFF]))

\* a record whose three values are numbers, wind offshore not zero
C12_Witness ==
    /\ pc = "returned"
    /\ Len(scenario_data) >= 1
    /\ ~scenario_data[1][TOTAL_REN].nan
    /\ scenario_data[1][WIND_OFF].num # 0
    /\ scenario_data[1][PV].num # 0

\* the ramp 0.45 + (target - 0.45) * t / (2050 - base_year) in percent, over
\* a common denominator
RampPct(target, t) ==
    Rat(45 * target.den * (2050 - base_year) + (100 * target.num - 45 * target.den) * t,
        target.den * (2050 - base_year))

TargetPct == Mul(params.renewable_target_2050, Num(100))

\* the share in percent is the smaller of the target and the ramp
CappedAt(share, target, ramp) ==
    /\ Leq(share, target)
    /\ share = target \/ share = ramp

\* C13: in every record of a returned projection the renewable share is at
\* most the 2050 target of the parameters the call used, and it is the
\* target or the ramp; under "Business as Usual" the share in percent is at
\* most 85.
C13_ShareCapped ==
    pc = "returned" =>
        \A i \in RecordIdx :
            /\ CappedAt(scenario_data[i][SHARE_PCT], TargetPct,
                        RampPct(params.renewable_target_2050,
                                scenario_data[i][YEAR] - base_year))
            /\ call.scenario_type = BAU => Leq(scenario_data[i][SHARE_PCT], Num(85))

\* a projection whose ramp lies above the target, so that the cap decides
\* the share
C13_Witness ==
    /\ pc = "returned"
    /\ Len(scenario_data) >= 2
    /\ scenario_data[1][SHARE_PCT] = TargetPct
    /\ ~Leq(RampPct(params.renewable_target_2050, 1), TargetPct)

\* C14 as claimed: in every record of a returned projection the renewable
\* share is the ramp 0.45 + (target - 0.45) * t / (2050 - base_year), which
\* is 0.45 at t = 0, and in the record of 2050 it is the target.
C14_ShareIsRamp ==
    pc = "returned" =>
        /\ base_year < 2050 => RampPct(params.renewable_target_2050, 0) = Num(45)
        /\ \A i \in RecordIdx :
              /\ scenario_data[i][SHARE_PCT] =
                    RampPct(params.renewable_target_2050, scenario_data[i][YEAR] - base_year)
              /\ scenario_data[i][YEAR] = 2050 => scenario_data[i][SHARE_PCT] = TargetPct

\* the share of a record under a target of at least 45 percent, and under a
\* smaller one
RampOrTarget(share, target, ramp) ==
    IF Leq(Num(45), target) THEN share = ramp ELSE share = target

\* C14 as amended: when the target is at least 0.45, as in the four
\* scenarios of the dashboard, the share of every record is the ramp, 0.45 at
\* t = 0 and the target in the record of 2050; when the target is below
\* 0.45 the share of every record is the target.
C14_ShareIsRampAboveFloor ==
    pc = "returned" =>
        /\ base_year < 2050 => RampPct(params.renewable_target_2050, 0) = Num(45)
        /\ \A i \in RecordIdx :
              /\ RampOrTarget(scenario_data[i][SHARE_PCT], TargetPct,
                              RampPct(params.renewable_target_2050,
                                      scenario_data[i][YEAR] - base_year))
              /\ scenario_data[i][YEAR] = 2050 => scenario_data[i][SHARE_PCT] = TargetPct

\* a projection of 30 years, from base year 2020, under a target above 0.45
C14_Witness ==
    /\ pc = "returned"
    /\ base_year = 2020
    /\ Len(scenario_data) = 30
    /\ scenario_data[30][YEAR] = 2050
    /\ Leq(Num(45), TargetPct)
    /\ scenario_data[30][SHARE_PCT] = TargetPct
    /\ scenario_data[1][SHARE_PCT] # scenario_data[2][SHARE_PCT]

-----------------------------------------------------------------------------
(* Properties of several calls *)

\* the renewable share column of a projection
ShareColumn(rows) == [k \in 1..Len(rows) |-> rows[k][SHARE_PCT]]

\* C15: of the four projections of the method comparison, which are computed
\* from the same series with the same scenario and the same custom
\* parameters, any two that start from the same base year (they cover the
\* same years) have the same renewable share in every year, whatever their
\* base values.
C15_ShareIgnoresGeneration ==
    method_comparison # None =>
        \A i, j \in 1..Len(method_comparison) :
            (/\ Len(method_comparison[i]) = Len(method_comparison[j])
             /\ Len(method_comparison[i]) >= 1
             /\ method_comparison[i][1][YEAR] = method_comparison[j][1][YEAR]) =>
                ShareColumn(method_comparison[i]) = ShareColumn(method_comparison[j])

\* two projections of the comparison over the same years whose solar values
\* are different numbers
C15_Witness ==
    /\ method_comparison # None
    /\ \E i, j \in 1..Len(method_comparison) :
          /\ Len(method_comparison[i]) = 25
          /\ Len(method_comparison[j]) = 25
          /\ method_comparison[i][1][YEAR] = method_comparison[j][1][YEAR]
          /\ ~method_comparison[i][1][PV].nan
          /\ ~method_comparison[j][1][PV].nan
          /\ method_comparison[i][1][PV] # method_comparison[j][1][PV]
          /\ method_comparison[i][25][TOTAL_REN] # method_comparison[j][25][TOTAL_REN]

\* C16: a second call with the series, scenario name, method name and custom
\* parameters of the first returns the base year, the base values and the
\* records the first call returned.
C16_SameArgumentsSameResult ==
    (previous # None /\ pc = "returned") =>
        /\ base_year = previous.base_year
        /\ base_values = previous.base_values
        /\ scenario_data = previous.scenario_data

-----------------------------------------------------------------------------
(* Properties of growth and of the scenario parameters *)

RECURSIVE FractionLess(_, _, _, _)
\* n1/d1 < n2/d2 for d1, d2 > 0, by whole parts and then remainders, without
\* products
FractionLess(n1, d1, n2, d2) ==
    IF n1 \div d1 # n2 \div d2 THEN n1 \div d1 < n2 \div d2
    ELSE IF n2 % d2 = 0 THEN FALSE
    ELSE IF n1 % d1 = 0 THEN TRUE
    ELSE FractionLess(d2, n2 % d2, d1, n1 % d1)

\* a < b for two numbers
Less(a, b) == ~a.nan /\ ~b.nan /\ FractionLess(a.num, a.den, b.num, b.den)

Positive(a) == Less(Num(0), a)

\* C17 as claimed: in a returned projection, for every technology whose
\* growth rate is positive and whose base value is a number, the value of
\* each record is less than the value of the next record.
C17_GrowthIncreases ==
    pc = "returned" =>
        \A c \in TechSet :
            (Positive(GrowthOf(c)) /\ ~BaseValueOf(c).nan) =>
                \A i \in RecordIdx :
                    i + 1 \in RecordIdx => Less(scenario_data[i][c], scenario_data[i + 1][c])

\* C17 as amended: for every technology whose growth rate is positive, the
\* values increase from each record to the next when the base value is
\* positive, decrease from each record to the next when it is negative, and
\* are all zero when it is zero.
C17_GrowthFollowsBaseSign ==
    pc = "returned" =>
        \A c \in TechSet :
            Positive(GrowthOf(c)) =>
                \A i \in RecordIdx :
                    /\ (Positive(BaseValueOf(c)) /\ i + 1 \in RecordIdx) =>
                          Less(scenario_data[i][c], scenario_data[i + 1][c])
                    /\ (Less(BaseValueOf(c), Num(0)) /\ i + 1 \in RecordIdx) =>
                          Less(scenario_data[i + 1][c], scenario_data[i][c])
                    /\ BaseValueOf(c) = Num(0) => scenario_data[i][c] = Num(0)

\* a projection of several years from a positive solar base value, whose
\* values rise, and a negative wind offshore base value, whose values fall
C17_Witness ==
    /\ pc = "returned"
    /\ Len(scenario_data) >= 2
    /\ Positive(BaseValueOf(PV))
    /\ Less(BaseValueOf(WIND_OFF), Num(0))
    /\ Less(scenario_data[1][PV], scenario_data[2][PV])
    /\ Less(scenario_data[2][WIND_OFF], scenario_data[1][WIND_OFF])

\* C18: a call with the name "Conservative" uses the growth rates 4%, 2% and
\* 6% and the target 70%, one with "Business as Usual" 7.5%, 4%, 12% and 85%,
\* one with "Ambitious" 12%, 7%, 18% and 95%, whatever custom parameters are
\* passed along.
C18_PresetParameters ==
    pc = "returned" =>
        /\ call.scenario_type = CONSERVATIVE =>
              /\ params.solar_growth = Rat(40, 1000)
              /\ params.wind_onshore_growth = Rat(20, 1000)
              /\ params.wind_offshore_growth = Rat(60, 1000)
              /\ params.renewable_target_2050 = Rat(70, 100)
        /\ call.scenario_type = BAU =>
              /\ params.solar_growth = Rat(75, 1000)
              /\ params.wind_onshore_growth = Rat(40, 1000)
              /\ params.wind_offshore_growth = Rat(120, 1000)
              /\ params.renewable_target_2050 = Rat(85, 100)
        /\ call.scenario_type = AMBITIOUS =>
              /\ params.solar_growth = Rat(120, 1000)
              /\ params.wind_onshore_growth = Rat(70, 1000)
              /\ params.wind_offshore_growth = Rat(180, 1000)
              /\ params.renewable_target_2050 = Rat(95, 100)

\* a call with the name "Ambitious" and custom parameters of other rates
C18_Witness ==
    /\ pc = "returned"
    /\ call.scenario_type = AMBITIOUS
    /\ call.custom_params # None
    /\ call.custom_params.solar_growth # params.solar_growth
    /\ Len(scenario_data) >= 1

\* C19 as claimed: every call with the name "Custom" uses the target 0.90,
\* whatever the caller passes.
C19_CustomTargetFixed ==
    (pc = "returned" /\ call.scenario_type = CUSTOM) =>
        params.renewable_target_2050 = Rat(90, 100)

\* C19 as amended: a call with the name "Custom" uses the custom parameters
\* it is passed as they are, their target included; without custom
\* parameters it uses the rates of the slider variables and the target 0.90.
C19_CustomTargetFromCaller ==
    (pc = "returned" /\ call.scenario_type = CUSTOM) =>
        /\ call.custom_params # None => params = call.custom_params
        /\ call.custom_params = None =>
              /\ params.renewable_target_2050 = Rat(90, 100)
              /\ params.solar_growth = Rat(sliders.solar_growth, 1000)
              /\ params.wind_onshore_growth = Rat(sliders.wind_onshore_growth, 1000)
              /\ params.wind_offshore_growth = Rat(sliders.wind_offshore_growth, 1000)

\* a "Custom" call with custom parameters of target 0.30, whose record of 2050
\* has the share 30
C19_Witness ==
    /\ pc = "returned"
    /\ call.scenario_type = CUSTOM
    /\ call.custom_params # None
    /\ call.custom_params.renewable_target_2050 = Rat(30, 100)
    /\ Len(scenario_data) >= 1
    /\ scenario_data[Len(scenario_data)][SHARE_PCT] = Num(30)

\* C20: a call with a scenario name other than "Conservative", "Business as
\* Usual", "Ambitious" and "Custom" fails; it never returns a projection.
C20_UnknownPresetFails ==
    (Called /\ call.scenario_type \notin {CONSERVATIVE, BAU, AMBITIOUS, CUSTOM}) =>
        pc # "returned"

\* C21: a call with the name "Custom" and without custom parameters fails; it
\* never returns a projection whose growth rates are those of the slider
\* variables of the script.
C21_CustomNeedsExplicitRates ==
    (Called /\ call.scenario_type = CUSTOM /\ call.custom_params = None) =>
        pc = "crashed"

\* the run has its main projection
Projected == pc \in {"returned", "tab3", "tab4", "done", "end"}

\* what the averaging or the regression of the method of the call gives for
\* column c at the base year, computed from the records of the series
EstimateOf(c) ==
    IF call.projection_method = AVG_3Y THEN MeanOver(IdxFrom(AvgFromYear), c)
    ELSE IF call.projection_method = TREND_5Y
         THEN FitAt(IdxFrom(TrendFromYear), c, base_year)
    ELSE FitAt(SeriesIdx, c, base_year)

\* an estimate v below zero is the base value of c, and every value of c is v
\* times the power of its year, below zero as well
NegativeKept(c, v, pw) ==
    Less(v, Num(0)) =>
        /\ BaseValueOf(c) = v
        /\ \A i \in RecordIdx :
              /\ scenario_data[i][c] =
                    Mul(v, Rat(pw[scenario_data[i][YEAR] - base_year], Scale))
              /\ Less(scenario_data[i][c], Num(0))

\* C22: when the averaging or the regression over the records of the series
\* gives a value below zero for a technology, that value is the base value
\* returned, and every projected value of the technology is that value times
\* (1 + rate) to the power of the years from the base year: below zero in
\* every record, never floored.
C22_NegativeBaselineKept ==
    (Projected /\ call.projection_method # LAST_YEAR /\ SeriesRows # <<>>) =>
        \A c \in TechSet :
            NegativeKept(c, EstimateOf(c),
                         PowerTable(GrowthOf(c), Len(scenario_data), <<>>))

\* a trend projection of a series whose wind offshore falls: the base value is
\* below zero and the values move further below it year by year
C22_Witness ==
    /\ Projected
    /\ call.projection_method \in {TREND_5Y, FULL_TREND}
    /\ Less(EstimateOf(WIND_OFF), Num(0))
    /\ Len(scenario_data) >= 2
    /\ Less(scenario_data[1][WIND_OFF], BaseValueOf(WIND_OFF))
    /\ Less(scenario_data[2][WIND_OFF], scenario_data[1][WIND_OFF])

\* C23: the exported table has the columns year, solar, wind onshore, wind
\* offshore, total renewable, renewable share percent, scenario name and
\* method name, in this order, and one line per record of the projection:
\* the first cell is the year of the record, the fifth the sum of the three
\* before it, the sixth of the last line the target share in percent, and the
\* seventh and eighth of every line the scenario and the method the
\* projection was requested with.
C23_CsvColumns ==
    csv # None =>
        /\ csv.header = <<"Year", "Photovoltaics [MWh]", "Wind Onshore [MWh]",
                          "Wind Offshore [MWh]", "Total Renewable [MWh]",
                          "Renewable Share [%]", "Scenario", "Projection_Method">>
        /\ Len(csv.lines) = Len(scenario_data)
        /\ \A i \in 1..Len(csv.lines) :
              /\ Len(csv.lines[i]) = 8
              /\ csv.lines[i][1] = base_year + i
              /\ csv.lines[i][2] = scenario_data[i]["Photovoltaics [MWh]"]
              /\ csv.lines[i][3] = scenario_data[i]["Wind Onshore [MWh]"]
              /\ csv.lines[i][4] = scenario_data[i]["Wind Offshore [MWh]"]
              /\ csv.lines[i][5] =
                    Add(Add(csv.lines[i][2], csv.lines[i][3]), csv.lines[i][4])
              /\ csv.lines[i][7] = scenario_type
              /\ csv.lines[i][8] = projection_method
        /\ csv.lines[Len(csv.lines)][6] = TargetPct

\* the export of a "Custom" projection of several years
C23_Witness ==
    /\ pc = "end"
    /\ csv # None
    /\ Len(csv.lines) >= 2
    /\ scenario_type = CUSTOM
    /\ csv.lines[2][7] = CUSTOM
    /\ csv.lines[2][8] = projection_method

\* every record of rows carries the scenario name sc and the method name m
Keyed(rows, sc, m) ==
    \A k \in 1..Len(rows) :
        rows[k]["Scenario"] = sc /\ rows[k]["Projection_Method"] = m

\* the last record of rows, that of 2050, has the share pct
EndsAt(rows, pct) == rows # <<>> => rows[Len(rows)]["Renewable Share [%]"] = pct

\* from the first record of rows to the second, technology c grows by the
\* rate whose powers are pw
SameRate(rows, c, pw) ==
    (Len(rows) >= 2 /\ ~rows[1][c].nan /\ rows[1][c].num # 0) =>
        Div(rows[2][c], rows[1][c]) = Rat(pw[2], pw[1])

\* the method comparison holds one record set per method, in the order of the
\* four methods, each carrying its method and the scenario of the run, and
\* computed with the target and the growth rates of the main projection
MethodsCompared ==
    /\ Len(method_comparison) = 4
    /\ Keyed(method_comparison[1], scenario_type, "Last Year Available (2025)")
    /\ Keyed(method_comparison[2], scenario_type, "3-Year Average (2023-2025)")
    /\ Keyed(method_comparison[3], scenario_type, "5-Year Trend (2021-2025)")
    /\ Keyed(method_comparison[4], scenario_type, "Full Historical Trend (2015-2025)")
    /\ \A i \in 1..4 :
          /\ EndsAt(method_comparison[i], TargetPct)
          /\ \A c \in TechSet :
                SameRate(method_comparison[i], c, PowerTable(GrowthOf(c), 2, <<>>))

\* the first three record sets of the scenario comparison are those of
\* "Conservative", "Business as Usual" and "Ambitious", each carrying its
\* scenario and the method of the run and ending at its own target
PresetsCompared ==
    /\ Len(all_scenarios) >= 3
    /\ Keyed(all_scenarios[1], "Conservative", projection_method)
    /\ Keyed(all_scenarios[2], "Business as Usual", projection_method)
    /\ Keyed(all_scenarios[3], "Ambitious", projection_method)
    /\ EndsAt(all_scenarios[1], Num(70))
    /\ EndsAt(all_scenarios[2], Num(85))
    /\ EndsAt(all_scenarios[3], Num(95))

\* the fourth record set of the scenario comparison is that of "Custom", with
\* the method and the custom parameters of the run
CustomCompared ==
    /\ Len(all_scenarios) = 4
    /\ Keyed(all_scenarios[4], "Custom", projection_method)
    /\ EndsAt(all_scenarios[4], Mul(custom_params.renewable_target_2050, Num(100)))
    /\ \A c \in TechSet :
          SameRate(all_scenarios[4], c,
                   PowerTable(IF c = PV THEN custom_params.solar_growth
                              ELSE IF c = WIND_ON THEN custom_params.wind_onshore_growth
                              ELSE custom_params.wind_offshore_growth, 2, <<>>))

\* C24 as claimed: a run that has drawn both comparison views holds one
\* record set for each of the four methods and one for each of the four
\* scenarios "Conservative", "Business as Usual", "Ambitious" and "Custom",
\* each carrying the name it was computed with, the other inputs being those
\* of the run.
C24_AllMethodsAllPresets ==
    (method_comparison # None /\ all_scenarios # None) =>
        MethodsCompared /\ PresetsCompared /\ CustomCompared

\* C24 as amended: a run that has drawn the method comparison holds one
\* record set for each of the four methods, computed with the scenario and
\* the custom parameters of the run; a run that has drawn the scenario
\* comparison holds one record set for each of "Conservative", "Business as
\* Usual" and "Ambitious", computed with the method of the run, and a fourth
\* one for "Custom" exactly when "Custom" is the scenario of the run.
C24_ComparisonsKeyed ==
    /\ method_comparison # None => MethodsCompared
    /\ all_scenarios # None =>
          /\ PresetsCompared
          /\ IF scenario_type = "Custom" THEN CustomCompared
             ELSE Len(all_scenarios) = 3

\* a run under "Business as Usual" that has drawn both views: four method
\* sets, two of them from different base values, and three scenario sets
C24_Witness ==
    /\ pc = "end"
    /\ scenario_type = BAU
    /\ Len(method_comparison) = 4
    /\ Len(all_scenarios) = 3
    /\ Len(method_comparison[1]) >= 2
    /\ Len(method_comparison[2]) >= 2
    /\ method_comparison[1][1][PV] # method_comparison[2][1][PV]
    /\ all_scenarios[1][1][SHARE_PCT] # all_scenarios[3][1][SHARE_PCT]

\* C25: a call of the projection function leaves the historical series as
\* it was, and the calls of the two comparison views, the tagging of their
\* results included, leave the main projection, its base year and its base
\* values as they were.
C25_CallsShareNoState ==
    [][/\ pc \in {"project", "tab3", "tab4"} => generation_df' = generation_df
       /\ pc \in {"tab3", "tab4"} =>
             /\ scenario_data' = scenario_data
             /\ base_year' = base_year
             /\ base_values' = base_values]_vars

\* a run under "Business as Usual" after both comparison views: the third
\* scenario set is tagged "Ambitious" and differs from the main projection,
\* whose records still carry "Business as Usual", and the series is the one
\* the main call was given
C25_Witness ==
    /\ pc = "end"
    /\ scenario_type = BAU
    /\ Len(scenario_data) >= 1
    /\ Len(all_scenarios) = 3
    /\ all_scenarios[3][1][SCENARIO] = AMBITIOUS
    /\ all_scenarios[3] # scenario_data
    /\ \A i \in 1..Len(scenario_data) : scenario_data[i][SCENARIO] = BAU
    /\ generation_df = call.base_df
    /\ generation_df.rows # <<>>

\* the years that occur in the rows of the workbook
YearsLoaded == {workbook.rows[i].year : i \in 1..Len(workbook.rows)}

\* C26: the loaded series has exactly one record for every year that occurs
\* in the rows of the workbook and none for any other year, its records are
\* in ascending order of the year, and the total generation of each record
\* is the sum of its solar, wind onshore and wind offshore totals.
C26_AnnualSeries ==
    generation_df # None =>
        /\ \A y \in YearsLoaded :
              Cardinality({i \in 1..Len(generation_df.rows) :
                              generation_df.rows[i]["Year"] = y}) = 1
        /\ \A i \in 1..Len(generation_df.rows) :
              /\ generation_df.rows[i]["Year"] \in YearsLoaded
              /\ generation_df.rows[i]["Total Generation [MWh]"] =
                    generation_df.rows[i]["Photovoltaics [MWh]"]
                    + generation_df.rows[i]["Wind Onshore [MWh]"]
                    + generation_df.rows[i]["Wind Offshore [MWh]"]
        /\ \A i \in 1..Len(generation_df.rows) : \A j \in 1..Len(generation_df.rows) :
              i < j => generation_df.rows[i]["Year"] < generation_df.rows[j]["Year"]

\* the records of the loaded series, whatever the year range
FullRows == generation_df.rows

FullIdxFrom(y) == {i \in 1..Len(FullRows) : FullRows[i]["Year"] >= y}

FullMean(c) ==
    Rat(SumOver(FullIdxFrom(2023), [i \in FullIdxFrom(2023) |-> FullRows[i][c]]),
        Cardinality(FullIdxFrom(2023)))

\* C27: the main projection is computed from the whole loaded series, whatever
\* the year range and the technology boxes of the historical tab: the
\* function is called with the loaded series; under "Last Year Available"
\* the base year is the largest year of the loaded series and the base values
\* are those of its record, and under "3-Year Average" the base values are
\* the means over all loaded records from 2023 on, also when the year range
\* leaves such records out; the first projected year is the year after the
\* base year.
C27_ProjectionFromFullSeries ==
    Projected =>
        /\ call.base_df = generation_df
        /\ (projection_method = "Last Year Available (2025)" /\ FullRows # <<>>) =>
              \E i \in 1..Len(FullRows) :
                  /\ \A j \in 1..Len(FullRows) : FullRows[j]["Year"] <= FullRows[i]["Year"]
                  /\ base_year = FullRows[i]["Year"]
                  /\ base_values.solar_mwh = Num(FullRows[i]["Photovoltaics [MWh]"])
                  /\ base_values.wind_onshore_mwh = Num(FullRows[i]["Wind Onshore [MWh]"])
                  /\ base_values.wind_offshore_mwh = Num(FullRows[i]["Wind Offshore [MWh]"])
        /\ (projection_method = "3-Year Average (2023-2025)" /\ FullRows # <<>>) =>
              /\ base_values.solar_mwh = FullMean("Photovoltaics [MWh]")
              /\ base_values.wind_onshore_mwh = FullMean("Wind Onshore [MWh]")
              /\ base_values.wind_offshore_mwh = FullMean("Wind Offshore [MWh]")
        /\ scenario_data # <<>> => scenario_data[1]["Year"] = base_year + 1

\* a run whose year range 2024-2025 leaves out the record of 2023, with two
\* technology boxes unticked, under "3-Year Average": the base values are the
\* means over 2023 and 2024, not the values of 2024
C27_Witness ==
    /\ Projected
    /\ year_range = <<2024, 2025>>
    /\ ~show_technology.wind_onshore
    /\ projection_method = AVG_3Y
    /\ Len(generation_df.rows) = 2
    /\ Len(generation_df_filtered.rows) = 1
    /\ generation_df.rows[1][YEAR] = 2023
    /\ base_values.solar_mwh = Num(12)
    /\ base_values.solar_mwh # Num(generation_df_filtered.rows[1][PV])
    /\ Len(scenario_data) = 25

\* C28: whatever the series and the method, a returned projection has
\* exactly one record for every year the target year slider can give, and the
\* scenario metrics of that year are displayed.
C28_TargetYearHasRecord ==
    pc = "returned" =>
        \A y \in TargetYears :
            /\ Len(YearData(scenario_data, y)) = 1
            /\ MetricsDisplayed(scenario_data, y)

====
